---- MODULE Spec2Model ----
(***************************************************************************)
(* A model of genghisjahn/battinglineup: the lineup enumerator             *)
(* (combinations / permutations of src/main.go), the producer / worker     *)
(* pipeline of main, the single-game loop and the Game.Hit transitions of  *)
(* src/batting/types.go.                                                   *)
(*                                                                         *)
(* Go slices are 0-based, TLA+ sequences 1-based: position i of a Go slice *)
(* is element i+1 of the sequence that models it.  Roster indices and      *)
(* batting-order positions keep their Go values (0..n-1, 0..8).            *)
(***************************************************************************)
EXTENDS Integers, Sequences, FiniteSets, TLC

\* ------------------------------------------------------------------ bounds

\* Largest roster (len(players)) explored.
MaxN == 4

\* Largest lineup size k handed to combinations(n, k, ...).  main passes the
\* literal 9 (and tests len(players) < 9); 9! orderings are out of reach of
\* an exhaustive check, so k is drawn from 1..MaxK and stands for that 9
\* wherever main uses it for the enumeration.
MaxK == 3

\* Largest roster and largest lineup size of the pipeline runs.  A worker may
\* hold one lineup while the others drain the rest of the enumeration, so
\* the pipeline's states grow with the power NumWorkers of the number of
\* lineups: its rosters are kept smaller than the enumerator's.
PipeN == 3

PipeK == 2

\* The plate appearances of one game that may end otherwise than in an out
\* (the batters who reach base or score).  Outs are never limited.
MaxReach == 4

\* workers := runtime.NumCPU()
NumWorkers == 2

\* Capacity of lineupCh (1024 in the source, scaled down so that the
\* producer meets a full channel).
QueueCap == 2

\* The lineups the workers complete in a run of the aggregator.
MaxLineups == 4

\* The meanRuns of a lineup are drawn from 0..MaxMean; fewer values than
\* lineups, so that lineups tie.
MaxMean == 2

\* Capacity of the top-K structure (configurable, 256 by default) and of the
\* bottom-K structure (10), scaled down so that both fill and replace.
TopK == 2

BottomK == 2

\* The statistics and draws handed to PlateAppearance and hitType on their
\* own are the multiples of 1/GridSteps between 0 and 1.
GridSteps == 4

\* hitType on its own is handed every AVG among the multiples of
\* 1/StatSteps up to 1.000 and every SLUG among those up to 2.000.
StatSteps == 10

\* ------------------------------------------------------------------ state

VARIABLES
    n,          \* len(players)
    k,          \* the lineup size main enumerates (9 in the source)
    mainpc,     \* position of main
    en,         \* the enumerator: frames of combinations' and permutations' rec
    combLog,    \* history: the combinations handed to the combination callback
    permLog,    \* history: the orders handed to the permutation callback
    sig,        \* history: which callbacks have returned false
    ch,         \* lineupCh: the lineups buffered in the channel, oldest first
    closed,     \* close(lineupCh) has run
    wpc,        \* position of each worker goroutine
    wjob,       \* the lineup each worker took from the channel
    wg,         \* the WaitGroup counter
    count,      \* the progress counter
    simcount,   \* history: how often each lineup has been simulated
    lineup,     \* the lineup of the simulated game: one Player per position
    sim,        \* a game being simulated: the Game and the loop's locals
    sim2,       \* a second run of the same game (TwinSpec)
    scores,     \* history: meanRuns of each lineup the workers completed
    top,        \* the top-K ranking structure
    bottom,     \* the bottom-K ranking structure
    arg,        \* the arguments of a call of one of the package's functions
    out         \* what the call returned

rosterVars == <<n, k>>

enumVars == <<en, combLog, permLog, sig>>

pipeVars == <<ch, closed, wpc, wjob, wg, count, simcount>>

simVars == <<lineup, sim, sim2>>

aggVars == <<scores, top, bottom>>

callVars == <<arg, out>>

\* What the enumerator's and the pipeline's steps leave alone.
elsewhere == <<simVars, aggVars, callVars>>

\* What a game's steps leave alone.
notGame == <<n, k, mainpc, en, combLog, permLog, sig,
             ch, closed, wpc, wjob, wg, count, simcount, aggVars, callVars>>

vars == <<n, k, mainpc, en, combLog, permLog, sig,
          ch, closed, wpc, wjob, wg, count, simcount, lineup, sim, sim2,
          scores, top, bottom, arg, out>>

\* ------------------------------------------------------------ enumerator

Front(s) == SubSeq(s, 1, Len(s) - 1)

\* perm[i], perm[j] = perm[j], perm[i]  (i, j are Go positions)
Swap(p, i, j) == [p EXCEPT ![i + 1] = p[j + 1], ![j + 1] = p[i + 1]]

\* The enumerator before combinations is called: rec(0, 0) is about to run.
\*   ph   where control is: "ccall" at the top of combinations' rec(i, start),
\*        "cyield" about to invoke the combination callback, "pcall" at the
\*        top of permutations' rec(i), "pyield" about to invoke the
\*        permutation callback, "pret" returning from permutations' rec,
\*        "cbret" permutations has returned into the combination callback,
\*        "cret" returning from combinations' rec, "done" combinations returned
\*   idx  idx[0..i-1] of combinations, the live prefix (i = Len(idx))
\*   perm the perm slice of permutations
\*   js   the loop variable j of each active frame of permutations' rec
\*   ok   the boolean being returned
EnumInit == [ph |-> "ccall", idx |-> <<>>, perm |-> <<>>, js |-> <<>>, ok |-> TRUE]

\* Top of combinations' rec(i, start): i == k yields, otherwise the for loop
\* starts at s = start and runs while s <= n-(k-i).
CombRec(e, nn, kk) ==
    LET i == Len(e.idx)
        start == IF i = 0 THEN 0 ELSE e.idx[i] + 1
    IN  IF i = kk
        THEN [e EXCEPT !.ph = "cyield"]
        ELSE IF start <= nn - (kk - i)
             THEN [e EXCEPT !.idx = Append(e.idx, start), !.ph = "ccall"]
             ELSE [e EXCEPT !.ok = TRUE, !.ph = "cret"]

\* A mutant of CombRet: the loop bound s <= n-(k-i) taken strictly.
CombRetStrict(e, nn, kk) ==
    IF e.idx = <<>>
    THEN [e EXCEPT !.ph = "done"]
    ELSE LET i == Len(e.idx) - 1
             s == e.idx[Len(e.idx)] + 1
         IN  IF ~e.ok
             THEN [e EXCEPT !.idx = Front(e.idx), !.ph = "cret"]
             ELSE IF s < nn - (kk - i)
                  THEN [e EXCEPT !.idx[Len(e.idx)] = s, !.ph = "ccall"]
                  ELSE [e EXCEPT !.idx = Front(e.idx), !.ok = TRUE, !.ph = "cret"]

\* A mutant of CombRet: a false from the callee does not end the loop.
CombRetDeaf(e, nn, kk) ==
    IF e.idx = <<>>
    THEN [e EXCEPT !.ph = "done"]
    ELSE LET i == Len(e.idx) - 1
             s == e.idx[Len(e.idx)] + 1
         IN  IF s <= nn - (kk - i)
             THEN [e EXCEPT !.idx[Len(e.idx)] = s, !.ph = "ccall"]
             ELSE [e EXCEPT !.idx = Front(e.idx), !.ok = TRUE, !.ph = "cret"]

\* rec(i+1, s+1) (or yield, when i+1 == k) has returned e.ok into the loop of
\* rec(i, .): false returns false at once, true steps s and either calls
\* rec(i+1, s+1) again or leaves the loop and returns true.  With no frame
\* left, rec(0, 0) has returned and combinations is over.
CombRet(e, nn, kk) ==
    IF e.idx = <<>>
    THEN [e EXCEPT !.ph = "done"]
    ELSE LET i == Len(e.idx) - 1
             s == e.idx[Len(e.idx)] + 1
         IN  IF ~e.ok
             THEN [e EXCEPT !.idx = Front(e.idx), !.ph = "cret"]
             ELSE IF s <= nn - (kk - i)
                  THEN [e EXCEPT !.idx[Len(e.idx)] = s, !.ph = "ccall"]
                  ELSE [e EXCEPT !.idx = Front(e.idx), !.ok = TRUE, !.ph = "cret"]

\* The combination callback of main starts: it calls permutations(idx, ...),
\* which copies idx into perm and runs rec(0).
CombYield(e) == [e EXCEPT !.perm = e.idx, !.js = <<>>, !.ph = "pcall"]

\* Top of permutations' rec(i): i == len(perm) yields, otherwise the loop
\* starts at j = i with the swap perm[i], perm[i] and calls rec(i+1).
PermRec(e) ==
    LET i == Len(e.js)
    IN  IF i = Len(e.perm)
        THEN [e EXCEPT !.ph = "pyield"]
        ELSE [e EXCEPT !.perm = Swap(e.perm, i, i), !.js = Append(e.js, i),
                       !.ph = "pcall"]

\* The permutation callback has returned b.
PermYield(e, b) == [e EXCEPT !.ok = b, !.ph = "pret"]

\* A mutant of PermRet: the swap is not undone after the recursive call.
PermRetNoUndo(e) ==
    IF e.js = <<>>
    THEN [e EXCEPT !.ph = "cbret"]
    ELSE LET i == Len(e.js) - 1
             j == e.js[Len(e.js)]
         IN  IF ~e.ok
             THEN [e EXCEPT !.js = Front(e.js), !.ph = "pret"]
             ELSE IF j + 1 < Len(e.perm)
                  THEN [e EXCEPT !.perm = Swap(e.perm, i, j + 1),
                                 !.js[Len(e.js)] = j + 1, !.ph = "pcall"]
                  ELSE [e EXCEPT !.js = Front(e.js), !.ok = TRUE, !.ph = "pret"]

\* A mutant of PermRet: a false from the callee does not end the loop.
PermRetDeaf(e) ==
    IF e.js = <<>>
    THEN [e EXCEPT !.ph = "cbret"]
    ELSE LET i == Len(e.js) - 1
             j == e.js[Len(e.js)]
             back == Swap(e.perm, i, j)
         IN  IF j + 1 < Len(e.perm)
             THEN [e EXCEPT !.perm = Swap(back, i, j + 1),
                            !.js[Len(e.js)] = j + 1, !.ph = "pcall"]
             ELSE [e EXCEPT !.perm = back, !.js = Front(e.js), !.ok = TRUE,
                            !.ph = "pret"]

\* rec(i+1) (or yield) has returned e.ok into the loop of rec(i): the swap is
\* undone; false returns false at once, true steps j and either swaps and
\* calls rec(i+1) again or leaves the loop and returns true.  With no frame
\* left rec(0) has returned: permutations returns (it has no result) into the
\* combination callback.
PermRet(e) ==
    IF e.js = <<>>
    THEN [e EXCEPT !.ph = "cbret"]
    ELSE LET i == Len(e.js) - 1
             j == e.js[Len(e.js)]
             back == Swap(e.perm, i, j)
         IN  IF ~e.ok
             THEN [e EXCEPT !.perm = back, !.js = Front(e.js), !.ph = "pret"]
             ELSE IF j + 1 < Len(e.perm)
                  THEN [e EXCEPT !.perm = Swap(back, i, j + 1),
                                 !.js[Len(e.js)] = j + 1, !.ph = "pcall"]
                  ELSE [e EXCEPT !.perm = back, !.js = Front(e.js), !.ok = TRUE,
                                 !.ph = "pret"]

\* The combination callback returns c to combinations' rec.
CombCallbackReturn(e, c) == [e EXCEPT !.perm = <<>>, !.ok = c, !.ph = "cret"]

\* One step of the enumerator; b and c are what the permutation and the
\* combination callback return when this step is their return.
EnumStep(e, nn, kk, b, c) ==
    CASE e.ph = "ccall"  -> CombRec(e, nn, kk)
      [] e.ph = "cyield" -> CombYield(e)
      [] e.ph = "pcall"  -> PermRec(e)
      [] e.ph = "pyield" -> PermYield(e, b)
      [] e.ph = "pret"   -> PermRet(e)
      [] e.ph = "cbret"  -> CombCallbackReturn(e, c)
      [] e.ph = "cret"   -> CombRet(e, nn, kk)
      [] OTHER           -> e

\* ------------------------------------------------- the outcome model

HIT_SINGLE == "single"

HIT_DOUBLE == "double"

HIT_TRIPLE == "triple"

HIT_HOMERUN == "home_run"

HIT_BY_PITCH_WALK == "walk_hbp"

HIT_OUT == "out"

\* AVG, OBP, SLUG and the draws of r.Float64() / rand.Float64() are counted
\* in thousandths (0.250 is 250); the arithmetic on them is exact, where the
\* source computes in float64.

\* if x < lo { x = lo }; if x > hi { x = hi }
Clamp(x, lo, hi) ==
    LET a == IF x < lo THEN lo ELSE x
    IN  IF a > hi THEN hi ELSE a

\* hitType computes on avg > 0, slug > 0.  Every quantity of it is a whole
\* multiple of 1/(3000 * avg); the operators below count in that unit, in
\* which 1.0 is 3000 * avg and a constant c is (3000 * c) * avg.

\* t := slug / avg, clamped to [1.10, 2.10]
BasesPerHit(avg, slug) == Clamp(3000 * slug, 3300 * avg, 6300 * avg)

\* p3 := 0.015, or 0.02 if t > 1.70
TripleShare(avg, t) == IF t > 5100 * avg THEN 60 * avg ELSE 45 * avg

\* p2 := 0.19 + 0.20*(t-1.55), clamped to [0.12, 0.26]
DoubleShare(avg, t) ==
    Clamp(570 * avg + (t - 4650 * avg) \div 5, 360 * avg, 780 * avg)

\* A mutant of HomeRunShare: pHR is not bounded.
HomeRunShareUnbounded(avg, t, p2, p3) ==
    (t - (3000 * avg + p2 + 2 * p3)) \div 3

\* A mutant of HomeRunShare: the upper bound of pHR is 0.20.
HomeRunShareWide(avg, t, p2, p3) ==
    Clamp((t - (3000 * avg + p2 + 2 * p3)) \div 3, 90 * avg, 600 * avg)

\* rem := t - (1 + p2 + 2*p3); pHR := rem / 3.0, clamped to [0.03, 0.12]
HomeRunShare(avg, t, p2, p3) ==
    Clamp((t - (3000 * avg + p2 + 2 * p3)) \div 3, 90 * avg, 360 * avg)

\* pS := 1.0 - (p2 + p3 + pHR)
SingleShare(avg, p2, p3, pHR) == 3000 * avg - (p2 + p3 + pHR)

\* maxHRReduce := pHR - 0.03 (at least 0); max2BReduce := p2 - 0.12 (at least 0)
Room(x, floor) == IF x - floor < 0 THEN 0 ELSE x - floor

\* The branch `if pS < 0.55`: the deficit is taken from pHR down to 0.03,
\* what is left of it from p2 down to 0.12; pS is computed again and held
\* at 0 or above.
Redistribute(avg, p2, p3, pHR) ==
    LET deficit0    == 1650 * avg - SingleShare(avg, p2, p3, pHR)
        maxHRReduce == Room(pHR, 90 * avg)
        hr          == IF deficit0 <= maxHRReduce THEN pHR - deficit0
                                                  ELSE pHR - maxHRReduce
        deficit1    == IF deficit0 <= maxHRReduce THEN 0
                                                  ELSE deficit0 - maxHRReduce
        max2BReduce == Room(p2, 360 * avg)
        dbl         == IF deficit1 > 0
                       THEN IF deficit1 <= max2BReduce THEN p2 - deficit1
                                                       ELSE p2 - max2BReduce
                       ELSE p2
        pS          == SingleShare(avg, dbl, p3, hr)
    IN  [pS |-> IF pS < 0 THEN 0 ELSE pS, p2 |-> dbl, p3 |-> p3, pHR |-> hr]

\* The four probabilities hitType draws from, each a multiple of 1/den.
\* pSfirst is pS before the test pS < 0.55, floor whether that test held.
HitProbs(avg, slug) ==
    LET t   == BasesPerHit(avg, slug)
        p3  == TripleShare(avg, t)
        p2  == DoubleShare(avg, t)
        pHR == HomeRunShare(avg, t, p2, p3)
        pS  == SingleShare(avg, p2, p3, pHR)
        r   == IF pS < 1650 * avg
               THEN Redistribute(avg, p2, p3, pHR)
               ELSE [pS |-> pS, p2 |-> p2, p3 |-> p3, pHR |-> pHR]
    IN  [den |-> 3000 * avg, pS |-> r.pS, p2 |-> r.p2, p3 |-> r.p3,
         pHR |-> r.pHR, pSfirst |-> pS, floor |-> pS < 1650 * avg]

\* hitType(avg, slug, r) where r.Float64() returns v.
hitType(avg, slug, v) ==
    IF avg <= 0 \/ slug <= 0
    THEN HIT_SINGLE
    ELSE LET p  == HitProbs(avg, slug)
             u0 == 3 * avg * v                       \* v in units of 1/den
             u1 == u0 - p.pS
             u2 == u1 - p.p2
         IN  IF u0 < p.pS THEN HIT_SINGLE
             ELSE IF u1 < p.p2 THEN HIT_DOUBLE
             ELSE IF u2 < p.p3 THEN HIT_TRIPLE
             ELSE HIT_HOMERUN

\* A mutant of PlateAppearance: the draws equal to OBP and to AVG fall into
\* the band above.
PlateAppearanceAbove(p, LRPitcher, u, v) ==
    LET s == IF LRPitcher = "left" THEN p.LHP ELSE p.RHP
    IN  IF u >= s.OBP THEN HIT_OUT
        ELSE IF u >= s.AVG THEN HIT_BY_PITCH_WALK
        ELSE hitType(s.AVG, s.SLUG, v)

\* p.PlateAppearance(LRPitcher, r) where r.Float64() returns u and then, in
\* hitType, v.
PlateAppearance(p, LRPitcher, u, v) ==
    LET s == IF LRPitcher = "left" THEN p.LHP ELSE p.RHP
    IN  IF u > s.OBP THEN HIT_OUT
        ELSE IF u > s.AVG THEN HIT_BY_PITCH_WALK
        ELSE hitType(s.AVG, s.SLUG, v)

\* slug after the default and the clamp of probScoreFrom...: 0.400 when
\* slug <= 0, then into [0.350, 0.600].
ClampSlug(slug) ==
    LET a == IF slug <= 0 THEN 400 ELSE slug
        b == IF a < 350 THEN 350 ELSE a
    IN  IF b > 600 THEN 600 ELSE b

\* probScoreFromSecondOnSingle(slug) as a multiple of 1/25000:
\* 0.38 + (slug-0.350)/0.250 * 0.34.
probScoreFromSecondOnSingle(slug) == 9500 + (ClampSlug(slug) - 350) * 34

\* probScoreFromFirstOnDouble(slug) as a multiple of 1/25000:
\* 0.32 + (slug-0.350)/0.250 * 0.30.
probScoreFromFirstOnDouble(slug) == 8000 + (ClampSlug(slug) - 350) * 30

\* ------------------------------------------------------ Game and Field

\* A nil *Player.  A non-nil one is &lineup[i], modelled by the position i.
Nil == -1

\* Field{}
EmptyField == [AtBat |-> Nil, FirstBase |-> Nil, SecondBase |-> Nil, ThirdBase |-> Nil]

\* Game{}
NewGame == [Hits |-> 0, Runs |-> 0, LOB |-> 0, Field |-> EmptyField, PitcherHand |-> ""]

\* f.LOB()
FieldLOB(f) ==
    (IF f.FirstBase # Nil THEN 1 ELSE 0)
    + (IF f.SecondBase # Nil THEN 1 ELSE 0)
    + (IF f.ThirdBase # Nil THEN 1 ELSE 0)

\* g.AddLOB(lob)
AddLOB(g, lob) == [g EXCEPT !.LOB = @ + lob]

\* g.currentBatterSlug(), the at-bat pointer looked up in lineup lu
currentBatterSlug(g, lu) ==
    IF g.Field.AtBat = Nil
    THEN 0
    ELSE IF g.PitcherHand = "left"
         THEN lu[g.Field.AtBat + 1].LHP.SLUG
         ELSE lu[g.Field.AtBat + 1].RHP.SLUG

\* A mutant of HitWalk: the runner on first takes second whether or not a
\* runner stands there, and the runner on second is forced only with the
\* bases loaded.
HitWalkOverwrite(g) ==
    LET first  == g.Field.FirstBase # Nil
        loaded == first /\ g.Field.SecondBase # Nil /\ g.Field.ThirdBase # Nil
        a == IF loaded
             THEN [g EXCEPT !.Field.ThirdBase = g.Field.SecondBase, !.Runs = @ + 1]
             ELSE g
        c == IF first
             THEN [a EXCEPT !.Field.SecondBase = a.Field.FirstBase,
                            !.Field.FirstBase = Nil]
             ELSE a
    IN  [c EXCEPT !.Field.FirstBase = c.Field.AtBat, !.Field.AtBat = Nil]

\* A mutant of HitWalk: every runner moves up, forced or not.
HitWalkAllAdvance(g) ==
    LET a == IF g.Field.ThirdBase # Nil
             THEN [g EXCEPT !.Field.ThirdBase = Nil, !.Runs = @ + 1]
             ELSE g
        b == [a EXCEPT !.Field.ThirdBase = a.Field.SecondBase,
                       !.Field.SecondBase = a.Field.FirstBase]
    IN  [b EXCEPT !.Field.FirstBase = b.Field.AtBat, !.Field.AtBat = Nil]

\* g.Hit(HIT_BY_PITCH_WALK)
HitWalk(g) ==
    LET first  == g.Field.FirstBase # Nil
        second == first /\ g.Field.SecondBase # Nil
        third  == second /\ g.Field.ThirdBase # Nil
        a == IF third
             THEN [g EXCEPT !.Field.ThirdBase = Nil, !.Runs = @ + 1]
             ELSE g
        b == IF second
             THEN [a EXCEPT !.Field.ThirdBase = a.Field.SecondBase,
                            !.Field.SecondBase = Nil]
             ELSE a
        c == IF first
             THEN [b EXCEPT !.Field.SecondBase = b.Field.FirstBase,
                            !.Field.FirstBase = Nil]
             ELSE b
    IN  [c EXCEPT !.Field.FirstBase = c.Field.AtBat, !.Field.AtBat = Nil]

\* A mutant of HitSingle: the runner on second who does not score stays on
\* second.
HitSingleStay(g, lu, coin) ==
    LET a == [g EXCEPT !.Hits = @ + 1]
        b == IF a.Field.ThirdBase # Nil
             THEN [a EXCEPT !.Field.ThirdBase = Nil, !.Runs = @ + 1]
             ELSE a
        c == IF b.Field.SecondBase # Nil
             THEN IF 25 * coin < probScoreFromSecondOnSingle(currentBatterSlug(b, lu))
                  THEN [b EXCEPT !.Field.SecondBase = Nil, !.Runs = @ + 1]
                  ELSE b
             ELSE b
        d == IF c.Field.FirstBase # Nil
             THEN [c EXCEPT !.Field.SecondBase = c.Field.FirstBase,
                            !.Field.FirstBase = Nil]
             ELSE c
    IN  [d EXCEPT !.Field.FirstBase = d.Field.AtBat, !.Field.AtBat = Nil]

\* g.Hit(HIT_SINGLE) where rand.Float64() returns coin
HitSingle(g, lu, coin) ==
    LET a == [g EXCEPT !.Hits = @ + 1]
        b == IF a.Field.ThirdBase # Nil
             THEN [a EXCEPT !.Field.ThirdBase = Nil, !.Runs = @ + 1]
             ELSE a
        c == IF b.Field.SecondBase # Nil
             THEN IF 25 * coin < probScoreFromSecondOnSingle(currentBatterSlug(b, lu))
                  THEN [b EXCEPT !.Field.SecondBase = Nil, !.Runs = @ + 1]
                  ELSE [b EXCEPT !.Field.ThirdBase = b.Field.SecondBase,
                                 !.Field.SecondBase = Nil]
             ELSE b
        d == IF c.Field.FirstBase # Nil
             THEN [c EXCEPT !.Field.SecondBase = c.Field.FirstBase,
                            !.Field.FirstBase = Nil]
             ELSE c
    IN  [d EXCEPT !.Field.FirstBase = d.Field.AtBat, !.Field.AtBat = Nil]

\* A mutant of HitDouble: the runner on first who does not score holds
\* first.
HitDoubleHoldFirst(g, lu, coin) ==
    LET a == [g EXCEPT !.Hits = @ + 1]
        b == IF a.Field.ThirdBase # Nil
             THEN [a EXCEPT !.Field.ThirdBase = Nil, !.Runs = @ + 1]
             ELSE a
        c == IF b.Field.SecondBase # Nil
             THEN [b EXCEPT !.Field.SecondBase = Nil, !.Runs = @ + 1]
             ELSE b
        d == IF c.Field.FirstBase # Nil
             THEN IF 25 * coin < probScoreFromFirstOnDouble(currentBatterSlug(c, lu))
                  THEN [c EXCEPT !.Field.FirstBase = Nil, !.Runs = @ + 1]
                  ELSE c
             ELSE c
    IN  [d EXCEPT !.Field.SecondBase = d.Field.AtBat, !.Field.AtBat = Nil]

\* g.Hit(HIT_DOUBLE) where rand.Float64() returns coin
HitDouble(g, lu, coin) ==
    LET a == [g EXCEPT !.Hits = @ + 1]
        b == IF a.Field.ThirdBase # Nil
             THEN [a EXCEPT !.Field.ThirdBase = Nil, !.Runs = @ + 1]
             ELSE a
        c == IF b.Field.SecondBase # Nil
             THEN [b EXCEPT !.Field.SecondBase = Nil, !.Runs = @ + 1]
             ELSE b
        d == IF c.Field.FirstBase # Nil
             THEN IF 25 * coin < probScoreFromFirstOnDouble(currentBatterSlug(c, lu))
                  THEN [c EXCEPT !.Field.FirstBase = Nil, !.Runs = @ + 1]
                  ELSE [c EXCEPT !.Field.ThirdBase = c.Field.FirstBase,
                                 !.Field.FirstBase = Nil]
             ELSE c
    IN  [d EXCEPT !.Field.SecondBase = d.Field.AtBat, !.Field.AtBat = Nil]

\* The three tests of the triple and of the home run: every runner scores.
ClearBases(g) ==
    LET b == IF g.Field.ThirdBase # Nil
             THEN [g EXCEPT !.Field.ThirdBase = Nil, !.Runs = @ + 1]
             ELSE g
        c == IF b.Field.SecondBase # Nil
             THEN [b EXCEPT !.Field.SecondBase = Nil, !.Runs = @ + 1]
             ELSE b
    IN  IF c.Field.FirstBase # Nil
        THEN [c EXCEPT !.Field.FirstBase = Nil, !.Runs = @ + 1]
        ELSE c

\* A mutant of HitTriple: the runs of the play replace the game's runs.
HitTripleOverwrite(g) ==
    LET d == ClearBases([g EXCEPT !.Hits = @ + 1, !.Runs = 0])
    IN  [d EXCEPT !.Field.ThirdBase = d.Field.AtBat, !.Field.AtBat = Nil]

\* g.Hit(HIT_TRIPLE)
HitTriple(g) ==
    LET d == ClearBases([g EXCEPT !.Hits = @ + 1])
    IN  [d EXCEPT !.Field.ThirdBase = d.Field.AtBat, !.Field.AtBat = Nil]

\* A mutant of HitHomeRun: the batter's own run is not counted.
HitHomeRunNoBatter(g) ==
    LET d == ClearBases([g EXCEPT !.Hits = @ + 1])
    IN  [d EXCEPT !.Field.AtBat = Nil]

\* g.Hit(HIT_HOMERUN)
HitHomeRun(g) ==
    LET d == ClearBases([g EXCEPT !.Hits = @ + 1])
    IN  [d EXCEPT !.Runs = @ + 1, !.Field.AtBat = Nil]

\* g.Hit(hittype) where the package-level rand.Float64() returns coin
Hit(g, hittype, lu, coin) ==
    CASE hittype = HIT_BY_PITCH_WALK -> HitWalk(g)
      [] hittype = HIT_SINGLE        -> HitSingle(g, lu, coin)
      [] hittype = HIT_DOUBLE        -> HitDouble(g, lu, coin)
      [] hittype = HIT_TRIPLE        -> HitTriple(g)
      [] hittype = HIT_HOMERUN       -> HitHomeRun(g)
      [] OTHER                       -> g

\* ------------------------------------------------ the single-game loop

\* The batting order wraps at 9 (batterIndex >= 9), whatever len(lineup) is.
BattingOrder == 9

\* for inning := 1; inning <= 9; inning++
Innings == 9

\* for outs < 3
OutsPerInning == 3

\* r.Float64() < 0.11, in thousandths
DoublePlayRate == 110

\* The state of one simulated game: the Game value and the locals of the
\* loop around it.  pc: "bat" at the top of the body of `for outs < 3`,
\* "switch" at the switch on result, "lob" behind that loop (the third out is
\* made), "done" behind the inning loop, "panic" after an index out of range.
\* History: pa counts the plate appearances completed, reached those of
\* them that were not outs.
NewSim == [game |-> NewGame, inning |-> 1, outs |-> 0, batterIndex |-> 0,
           result |-> "", pc |-> "bat", pa |-> 0, reached |-> 0]

\* game.Field.AtBat = &lineup[batterIndex];
\* result := lineup[batterIndex].PlateAppearance("right", r)
\* where r.Float64() returns u and then (in hitType) v.  Indexing past the end
\* of the slice panics.
BatStep(s, lu, u, v) ==
    IF s.batterIndex >= Len(lu)
    THEN [s EXCEPT !.pc = "panic"]
    ELSE [s EXCEPT !.game.Field.AtBat = s.batterIndex,
                   !.result = PlateAppearance(lu[s.batterIndex + 1], "right", u, v),
                   !.pc = "switch"]

\* A mutant of OutCase: the double play leaves the runner on first.
OutCaseKeepRunner(s, d) ==
    LET a == [s EXCEPT !.outs = @ + 1]
    IN  IF a.game.Field.FirstBase # Nil /\ a.outs < 2 /\ d < DoublePlayRate
        THEN [a EXCEPT !.outs = @ + 1]
        ELSE a

\* A mutant of OutCase: the double play is tried at any number of outs.
OutCaseAnyOuts(s, d) ==
    LET a == [s EXCEPT !.outs = @ + 1]
    IN  IF a.game.Field.FirstBase # Nil /\ d < DoublePlayRate
        THEN [a EXCEPT !.outs = @ + 1, !.game.Field.FirstBase = Nil]
        ELSE a

\* case baseball.HIT_OUT, where r.Float64() returns d if it is called
OutCase(s, d) ==
    LET a == [s EXCEPT !.outs = @ + 1]
    IN  IF a.game.Field.FirstBase # Nil /\ a.outs < 2 /\ d < DoublePlayRate
        THEN [a EXCEPT !.outs = @ + 1, !.game.Field.FirstBase = Nil]
        ELSE a

\* A mutant of NextBatter: the batting order does not move.
NextBatterStuck(i) == i

\* batterIndex++; if batterIndex >= 9 { batterIndex = 0 }
NextBatter(i) == IF i + 1 >= BattingOrder THEN 0 ELSE i + 1

\* The switch on result, game.Field.AtBat = nil, the step of batterIndex and
\* the test of `for outs < 3`.  d is the draw of r for the double play, coin
\* the draw of the package-level rand inside Game.Hit.
SwitchStep(s, lu, d, coin) ==
    LET a == IF s.result = HIT_OUT
             THEN OutCase(s, d)
             ELSE [s EXCEPT !.game = Hit(s.game, s.result, lu, coin)]
        b == [a EXCEPT !.game.Field.AtBat = Nil,
                       !.batterIndex = NextBatter(a.batterIndex),
                       !.pa = @ + 1,
                       !.reached = IF s.result = HIT_OUT THEN @ ELSE @ + 1]
    IN  [b EXCEPT !.pc = IF b.outs < OutsPerInning THEN "bat" ELSE "lob"]

\* A mutant of LobStep: the batting order starts again with each inning.
LobStepResetOrder(s) ==
    LET a == [s EXCEPT !.game = AddLOB(s.game, FieldLOB(s.game.Field))]
        b == [a EXCEPT !.game.Field.FirstBase = Nil,
                       !.game.Field.SecondBase = Nil,
                       !.game.Field.ThirdBase = Nil,
                       !.batterIndex = 0,
                       !.inning = @ + 1]
    IN  IF b.inning <= Innings
        THEN [b EXCEPT !.outs = 0, !.pc = "bat"]
        ELSE [b EXCEPT !.pc = "done"]

\* A mutant of LobStep: third base is not cleared.
LobStepKeepThird(s) ==
    LET a == [s EXCEPT !.game = AddLOB(s.game, FieldLOB(s.game.Field))]
        b == [a EXCEPT !.game.Field.FirstBase = Nil,
                       !.game.Field.SecondBase = Nil,
                       !.inning = @ + 1]
    IN  IF b.inning <= Innings
        THEN [b EXCEPT !.outs = 0, !.pc = "bat"]
        ELSE [b EXCEPT !.pc = "done"]

\* lob := game.Field.LOB(); game.AddLOB(lob); the bases are cleared; inning++
\* and either the next inning starts with outs := 0 or the game is over.
LobStep(s) ==
    LET a == [s EXCEPT !.game = AddLOB(s.game, FieldLOB(s.game.Field))]
        b == [a EXCEPT !.game.Field.FirstBase = Nil,
                       !.game.Field.SecondBase = Nil,
                       !.game.Field.ThirdBase = Nil,
                       !.inning = @ + 1]
    IN  IF b.inning <= Innings
        THEN [b EXCEPT !.outs = 0, !.pc = "bat"]
        ELSE [b EXCEPT !.pc = "done"]

\* No function of the package has been called on its own.
CallIdle ==
    /\ arg = <<>>
    /\ out = ""

\* No result has been handed to the aggregator.
AggIdle ==
    /\ scores = <<>>
    /\ top = {}
    /\ bottom = {}

\* No game is being simulated.
SimIdle ==
    /\ lineup = <<>>
    /\ sim = NewSim
    /\ sim2 = NewSim

\* The enumerator run on from e, with both callbacks of main returning true,
\* to the point where the permutation callback is next invoked or
\* combinations has returned.
RECURSIVE RunToYield(_, _, _)
RunToYield(e, nn, kk) ==
    IF e.ph \in {"pyield", "done"}
    THEN e
    ELSE CHOOSE r \in {RunToYield(s, nn, kk) :
                           s \in {EnumStep(e, nn, kk, TRUE, TRUE)}} : TRUE

\* comb: the combination callback has returned false; perm: the permutation
\* callback has returned false in the call of permutations that is running;
\* permEver: it has returned false at some time; nperm: the permutation
\* callbacks invoked for the current combination.
SigInit == [comb |-> FALSE, perm |-> FALSE, permEver |-> FALSE, nperm |-> 0]

EnumIdle ==
    /\ en = EnumInit
    /\ combLog = <<>>
    /\ permLog = <<>>
    /\ sig = SigInit

\* No goroutine started, no channel in use.
PipeIdle ==
    /\ ch = <<>>
    /\ closed = FALSE
    /\ wpc = [w \in 1..NumWorkers |-> "none"]
    /\ wjob = [w \in 1..NumWorkers |-> <<>>]
    /\ wg = 0
    /\ count = 0
    /\ simcount = << >>

\* main is inside combinations.
Enumerating == mainpc = "enum"

\* ------------------------------------------- the serial entry point (main)

\* main of the serial variant: the roster is loaded (any length up to MaxN).
SerialInit ==
    /\ n \in 0..MaxN
    /\ k \in 1..MaxK
    /\ mainpc = "check"
    /\ EnumIdle
    /\ PipeIdle
    /\ SimIdle
    /\ AggIdle
    /\ CallIdle

\* if len(players) < 9 { log.Fatalf(...) }: the process exits.
SerialCheck ==
    /\ mainpc = "check"
    /\ mainpc' = IF n < k THEN "fatal" ELSE "enum"
    /\ UNCHANGED <<rosterVars, enumVars, pipeVars, elsewhere>>

\* combinations' rec runs its test and its loop header.
EnumCombRec ==
    /\ Enumerating
    /\ en.ph = "ccall"
    /\ en' = CombRec(en, n, k)
    /\ UNCHANGED <<rosterVars, mainpc, combLog, permLog, sig, pipeVars, elsewhere>>

\* yield(comb): the combination callback is entered and calls permutations.
EnumCombYield ==
    /\ Enumerating
    /\ en.ph = "cyield"
    /\ en' = CombYield(en)
    /\ combLog' = Append(combLog, en.idx)
    /\ sig' = [sig EXCEPT !.perm = FALSE, !.nperm = 0]
    /\ UNCHANGED <<rosterVars, mainpc, permLog, pipeVars, elsewhere>>

\* permutations' rec runs its test and its loop header.
EnumPermRec ==
    /\ Enumerating
    /\ en.ph = "pcall"
    /\ en' = PermRec(en)
    /\ UNCHANGED <<rosterVars, mainpc, combLog, permLog, sig, pipeVars, elsewhere>>

\* yield(p): main's permutation callback builds the lineup
\* (lineup[i] = players[order[i]]), counts it and returns true.
SerialPermYield ==
    /\ Enumerating
    /\ en.ph = "pyield"
    /\ en' = PermYield(en, TRUE)
    /\ permLog' = Append(permLog, en.perm)
    /\ sig' = [sig EXCEPT !.nperm = @ + 1]
    /\ UNCHANGED <<rosterVars, mainpc, combLog, pipeVars, elsewhere>>

\* permutations' rec returns into its caller's loop.
EnumPermRet ==
    /\ Enumerating
    /\ en.ph = "pret"
    /\ en' = PermRet(en)
    /\ UNCHANGED <<rosterVars, mainpc, combLog, permLog, sig, pipeVars, elsewhere>>

\* main's combination callback: permutations has returned; return true.
CombReturnTrue ==
    /\ Enumerating
    /\ en.ph = "cbret"
    /\ en' = CombCallbackReturn(en, TRUE)
    /\ UNCHANGED <<rosterVars, mainpc, combLog, permLog, sig, pipeVars, elsewhere>>

\* combinations' rec returns into its caller's loop.
EnumCombRet ==
    /\ Enumerating
    /\ en.ph = "cret"
    /\ en' = CombRet(en, n, k)
    /\ UNCHANGED <<rosterVars, mainpc, combLog, permLog, sig, pipeVars, elsewhere>>

\* combinations has returned: main returns.
SerialReturn ==
    /\ mainpc = "enum"
    /\ en.ph = "done"
    /\ mainpc' = "exit"
    /\ UNCHANGED <<rosterVars, enumVars, pipeVars, elsewhere>>

SerialNext ==
    \/ SerialCheck
    \/ EnumCombRec
    \/ EnumCombYield
    \/ EnumPermRec
    \/ SerialPermYield
    \/ EnumPermRet
    \/ CombReturnTrue
    \/ EnumCombRet
    \/ SerialReturn

\* The serial entry point: roster check, then the whole enumeration.
SerialSpec == SerialInit /\ [][SerialNext]_vars

\* --------------------------- the enumerator under a consumer that may stop

\* combinations(n, k, ...) with permutations nested in its callback as in
\* main, called with any n and k; the consumer's callbacks return what they
\* like.
StopInit ==
    /\ n \in 0..MaxN
    /\ k \in 1..MaxK
    /\ mainpc = "enum"
    /\ EnumIdle
    /\ PipeIdle
    /\ SimIdle
    /\ AggIdle
    /\ CallIdle

\* yield(p) returns b, the consumer's choice.
StopPermYield ==
    /\ Enumerating
    /\ en.ph = "pyield"
    /\ \E b \in BOOLEAN :
          /\ en' = PermYield(en, b)
          /\ sig' = [sig EXCEPT !.perm = ~b, !.permEver = @ \/ ~b,
                                 !.nperm = @ + 1]
    /\ UNCHANGED <<rosterVars, mainpc, combLog, permLog, pipeVars, elsewhere>>

\* The combination callback returns c, the consumer's choice: permutations
\* has no result, so c does not depend on how permutations ended.
StopCombReturn ==
    /\ Enumerating
    /\ en.ph = "cbret"
    /\ \E c \in BOOLEAN :
          /\ en' = CombCallbackReturn(en, c)
          /\ sig' = [sig EXCEPT !.comb = ~c, !.perm = FALSE]
    /\ UNCHANGED <<rosterVars, mainpc, combLog, permLog, pipeVars, elsewhere>>

StopNext ==
    \/ EnumCombRec
    \/ EnumCombYield
    \/ EnumPermRec
    \/ StopPermYield
    \/ EnumPermRet
    \/ StopCombReturn
    \/ EnumCombRet
    \/ SerialReturn

StopSpec == StopInit /\ [][StopNext]_vars

\* ------------------------------------------------------------------ C1

Fact(m) == IF m = 0 THEN 1 ELSE LET F[i \in 0..m] == IF i = 0 THEN 1 ELSE i * F[i - 1] IN F[m]

\* C(nn, kk)
Choose(nn, kk) == IF kk > nn THEN 0 ELSE Fact(nn) \div (Fact(kk) * Fact(nn - kk))

\* Every ordered lineup of kk distinct roster indices out of 0..nn-1.
AllLineups(nn, kk) ==
    {s \in [1..kk -> 0..(nn - 1)] : \A a, b \in 1..kk : a # b => s[a] # s[b]}

NoDuplicates(s) == \A a, b \in 1..Len(s) : a # b => s[a] # s[b]

\* C1: once main has enumerated a roster of n >= k players with both
\* callbacks returning true, the permutation callback has been handed every
\* ordered lineup of k distinct roster indices exactly once: C(n,k) * k!
\* emissions, none twice, none missing; and no lineup is emitted twice at any
\* time before that.
C1_EveryLineupOnce ==
    /\ NoDuplicates(permLog)
    /\ mainpc = "exit" =>
          /\ Len(permLog) = Choose(n, k) * Fact(k)
          /\ {permLog[i] : i \in 1..Len(permLog)} = AllLineups(n, k)

\* The largest enumeration is complete: n = MaxN, k = MaxK with more than
\* one combination.
C1_Witness ==
    /\ mainpc = "exit"
    /\ n > k
    /\ k > 1
    /\ Len(permLog) = Choose(n, k) * Fact(k)
    /\ Len(permLog) > Fact(k)

\* ------------------------------------------------------------------ C2

\* A callback is about to be invoked.
CallbackDue == en.ph \in {"cyield", "pyield"}

\* C2 as stated: once a callback of either level has returned false, no
\* combination callback and no permutation callback is invoked any more.
C2_StopEndsAllCallbacks ==
    (sig.comb \/ sig.permEver) => ~CallbackDue

\* C2 as amended: a false from the combination callback ends the generation
\* (no callback of either level follows); a false from the permutation
\* callback ends the running call of permutations (no permutation callback
\* follows in that call: its frames unwind and it returns into the
\* combination callback), but it does not end combinations.
C2_StopEndsItsOwnLevel ==
    /\ sig.comb => en.ph \in {"cret", "done"}
    /\ sig.perm => en.ph \in {"pret", "cbret"}

\* Both levels have stopped a generation early: a permutation callback
\* returned false, a later combination callback returned false, and
\* combinations returned with combinations left unvisited.
C2_Witness ==
    /\ sig.permEver
    /\ sig.comb
    /\ mainpc = "exit"
    /\ Len(combLog) > 1
    /\ Len(combLog) < Choose(n, k)

\* ------------------------------------- the pipeline entry point (main)

\* main of the pipeline variant: the roster is loaded.
Init ==
    /\ n \in 0..PipeN
    /\ k \in 1..PipeK
    /\ mainpc = "check"
    /\ EnumIdle
    /\ ch = <<>>
    /\ closed = FALSE
    /\ wpc = [w \in 1..NumWorkers |-> "none"]
    /\ wjob = [w \in 1..NumWorkers |-> <<>>]
    /\ wg = 0
    /\ count = 0
    /\ simcount = [l \in AllLineups(n, k) |-> 0]
    /\ SimIdle
    /\ AggIdle
    /\ CallIdle

\* if len(players) < 9 { log.Fatalf(...) }: the process exits.
MainCheck ==
    /\ mainpc = "check"
    /\ mainpc' = IF n < k THEN "fatal" ELSE "start"
    /\ UNCHANGED <<rosterVars, enumVars, pipeVars, elsewhere>>

\* The channel is made, wg.Add(workers), the workers and the producer are
\* started with go; main goes on to wg.Wait().
MainStart ==
    /\ mainpc = "start"
    /\ wg' = wg + NumWorkers
    /\ wpc' = [w \in 1..NumWorkers |-> "recv"]
    /\ mainpc' = "wait"
    /\ UNCHANGED <<rosterVars, enumVars, ch, closed, wjob, count, simcount, elsewhere>>

\* The producer goroutine starts: combinations, and permutations in its
\* callback, run up to the first lineup (or to the end when there is none).
\* The steps between two sends touch only the goroutine's own frames, so
\* they are taken as one; SerialSpec takes them one by one.
ProducerRun ==
    /\ mainpc = "wait"
    /\ en.ph = "ccall"
    /\ en.idx = <<>>
    /\ en' = RunToYield(en, n, k)
    /\ UNCHANGED <<rosterVars, mainpc, combLog, permLog, sig, pipeVars, elsewhere>>

\* The producer's permutation callback: lineup[i] = players[order[i]], then
\* lineupCh <- lineup, which blocks while the channel is full; return true,
\* and the enumeration runs on to the next lineup (or to the end).
ProducerSend ==
    /\ mainpc = "wait"
    /\ en.ph = "pyield"
    /\ Len(ch) < QueueCap
    /\ ch' = Append(ch, en.perm)
    /\ en' = RunToYield(PermYield(en, TRUE), n, k)
    /\ permLog' = Append(permLog, en.perm)
    /\ sig' = [sig EXCEPT !.nperm = @ + 1]
    /\ UNCHANGED <<rosterVars, mainpc, combLog, closed, wpc, wjob, wg, count,
                   simcount, elsewhere>>

\* combinations has returned in the producer: close(lineupCh).
ProducerClose ==
    /\ mainpc = "wait"
    /\ en.ph = "done"
    /\ ~closed
    /\ closed' = TRUE
    /\ UNCHANGED <<rosterVars, mainpc, enumVars, ch, wpc, wjob, wg, count,
                   simcount, elsewhere>>

\* A mutant of WorkerRecv: the lineup is read but stays in the channel.
WorkerRecvPeek(w) ==
    /\ wpc[w] = "recv"
    /\ ch # <<>>
    /\ wjob' = [wjob EXCEPT ![w] = Head(ch)]
    /\ wpc' = [wpc EXCEPT ![w] = "sim"]
    /\ UNCHANGED <<rosterVars, mainpc, enumVars, ch, closed, wg, count, simcount, elsewhere>>

\* for lineup := range lineupCh: the worker takes the oldest lineup.
WorkerRecv(w) ==
    /\ wpc[w] = "recv"
    /\ ch # <<>>
    /\ wjob' = [wjob EXCEPT ![w] = Head(ch)]
    /\ ch' = Tail(ch)
    /\ wpc' = [wpc EXCEPT ![w] = "sim"]
    /\ UNCHANGED <<rosterVars, mainpc, enumVars, closed, wg, count, simcount, elsewhere>>

\* The worker runs the lineupCount games of its lineup, which touch only the
\* goroutine's own Game value (GameSpec models one of them), then
\* atomic.AddUint64(&count, 1), and goes back to the range loop.
WorkerProcess(w) ==
    /\ wpc[w] = "sim"
    /\ simcount' = [simcount EXCEPT ![wjob[w]] = @ + 1]
    /\ count' = count + 1
    /\ wjob' = [wjob EXCEPT ![w] = <<>>]
    /\ wpc' = [wpc EXCEPT ![w] = "recv"]
    /\ UNCHANGED <<rosterVars, mainpc, enumVars, ch, closed, wg, elsewhere>>

\* A mutant of WorkerExit: the worker leaves when it finds the channel empty.
WorkerExitOnEmpty(w) ==
    /\ wpc[w] = "recv"
    /\ ch = <<>>
    /\ wpc' = [wpc EXCEPT ![w] = "exit"]
    /\ wg' = wg - 1
    /\ UNCHANGED <<rosterVars, mainpc, enumVars, ch, closed, wjob, count, simcount, elsewhere>>

\* The channel is closed and drained: the range loop ends, the deferred
\* wg.Done() runs.
WorkerExit(w) ==
    /\ wpc[w] = "recv"
    /\ ch = <<>>
    /\ closed
    /\ wpc' = [wpc EXCEPT ![w] = "exit"]
    /\ wg' = wg - 1
    /\ UNCHANGED <<rosterVars, mainpc, enumVars, ch, closed, wjob, count, simcount, elsewhere>>

\* wg.Wait() returns; main returns and the process ends.
MainWait ==
    /\ mainpc = "wait"
    /\ wg = 0
    /\ mainpc' = "exit"
    /\ UNCHANGED <<rosterVars, enumVars, pipeVars, elsewhere>>

Next ==
    \/ MainCheck
    \/ MainStart
    \/ ProducerRun
    \/ ProducerSend
    \/ ProducerClose
    \/ \E w \in 1..NumWorkers : WorkerRecv(w)
    \/ \E w \in 1..NumWorkers : WorkerProcess(w)
    \/ \E w \in 1..NumWorkers : WorkerExit(w)
    \/ MainWait

\* The pipeline entry point: roster check, worker pool, producer, wait.
Spec == Init /\ [][Next]_vars

\* ------------------------------------------------------------------ C3

\* How often lineup l is in the channel.
InChannel(l) == Cardinality({i \in 1..Len(ch) : ch[i] = l})

\* The workers that hold lineup l and have not simulated it yet.
Holding(l) == {w \in 1..NumWorkers : wpc[w] = "sim" /\ wjob[w] = l}

Pushed == {permLog[i] : i \in 1..Len(permLog)}

\* C3: under every interleaving, a lineup the producer has pushed is at any
\* time either in the channel once, or held by exactly one worker that is
\* about to simulate it, or simulated exactly once (never two of these, so
\* never by two workers and never twice); nothing that was not pushed is
\* simulated; and when main's wait returns every pushed lineup has been
\* simulated exactly once.
C3_EachLineupSimulatedOnce ==
    /\ \A l \in Pushed :
          InChannel(l) + Cardinality(Holding(l)) + simcount[l] = 1
    /\ \A l \in DOMAIN simcount : l \notin Pushed => simcount[l] = 0
    /\ mainpc = "exit" => \A l \in Pushed : simcount[l] = 1

\* The pipeline has shut down after more lineups went through it than the
\* channel and the workers can hold at once.
C3_Witness ==
    /\ mainpc = "exit"
    /\ Len(permLog) > QueueCap + NumWorkers
    /\ \A l \in Pushed : simcount[l] = 1

\* ------------------------------------------------------- one game

\* Three players' split stats, in thousandths.
Typical == [LHP |-> [AVG |-> 280, OBP |-> 350, SLUG |-> 450],
            RHP |-> [AVG |-> 250, OBP |-> 330, SLUG |-> 400]]

Slugger == [LHP |-> [AVG |-> 260, OBP |-> 340, SLUG |-> 420],
            RHP |-> [AVG |-> 300, OBP |-> 400, SLUG |-> 630]]

\* A player with no hits against right-handers on record.
Hitless == [LHP |-> [AVG |-> 200, OBP |-> 250, SLUG |-> 300],
            RHP |-> [AVG |-> 0, OBP |-> 300, SLUG |-> 0]]

\* A lineup as the producer builds it: lineup := make([]baseball.Player, 9).
NineBatters == <<Typical, Slugger, Hitless, Typical, Slugger, Typical,
                 Hitless, Slugger, Typical>>

\* The values r.Float64() and rand.Float64() may return, in thousandths:
\* for each of the three players they reach every outcome of
\* PlateAppearance and both sides of every comparison with a draw.
Draws == {0, 300, 350, 500, 800, 870, 990}

\* The values drawn for the double play (against 0.11) and inside Game.Hit
\* (against a probability between 0.38 and 0.68): below every threshold,
\* between them, above every one.
Coins == {0, 500, 990}

\* The draws a step takes.  A value that the code does not draw at a step
\* has no part in it; 0 stands for it.

\* hitType draws from r only when the plate appearance is a hit.
HitTypeDraws(s, lu, u) ==
    IF s.batterIndex < Len(lu) /\ u <= lu[s.batterIndex + 1].RHP.AVG
    THEN Draws
    ELSE {0}

\* The double play draws from r on an out with a runner on first and fewer
\* than two outs.
DoublePlayDraws(s) ==
    IF s.result = HIT_OUT /\ s.game.Field.FirstBase # Nil /\ s.outs + 1 < 2
    THEN Coins
    ELSE {0}

\* Game.Hit draws from rand on a single with a runner on second and on a
\* double with a runner on first.
HitCoins(s) ==
    IF \/ s.result = HIT_SINGLE /\ s.game.Field.SecondBase # Nil
       \/ s.result = HIT_DOUBLE /\ s.game.Field.FirstBase # Nil
    THEN Coins
    ELSE {0}

\* The game is within the bound MaxReach.
CanReach(s) == s.reached < MaxReach

\* A worker starts one game of its lineup: game := baseball.Game{},
\* batterIndex := 0, inning := 1, outs := 0.
GameInit ==
    /\ n = 9
    /\ k = 9
    /\ mainpc = "wait"
    /\ EnumIdle
    /\ PipeIdle
    /\ lineup = NineBatters
    /\ sim = NewSim
    /\ sim2 = NewSim
    /\ AggIdle
    /\ CallIdle

\* The batter steps up and PlateAppearance draws the result.
GameBat ==
    /\ sim.pc = "bat"
    /\ \E u \in Draws : \E v \in HitTypeDraws(sim, lineup, u) :
          LET s == BatStep(sim, lineup, u, v)
          IN  /\ (s.pc = "switch" /\ s.result # HIT_OUT) => CanReach(sim)
              /\ sim' = s
    /\ UNCHANGED <<notGame, lineup, sim2>>

\* The result is played: the switch, the double play, Game.Hit.
GameSwitch ==
    /\ sim.pc = "switch"
    /\ \E d \in DoublePlayDraws(sim), coin \in HitCoins(sim) :
          sim' = SwitchStep(sim, lineup, d, coin)
    /\ UNCHANGED <<notGame, lineup, sim2>>

\* The third out is made: left on base, bases cleared, next inning.
GameLob ==
    /\ sim.pc = "lob"
    /\ sim' = LobStep(sim)
    /\ UNCHANGED <<notGame, lineup, sim2>>

GameNext ==
    \/ GameBat
    \/ GameSwitch
    \/ GameLob

\* One game of one lineup, as a worker of the pipeline simulates it.
GameSpec == GameInit /\ [][GameNext]_vars

\* ---------------------------------------------------------------------
\* The state of the bases before and after a step of the game.

Occupied(b) == b # Nil

Loaded(f) == Occupied(f.FirstBase) /\ Occupied(f.SecondBase) /\ Occupied(f.ThirdBase)

BasesEmpty(f) == f.FirstBase = Nil /\ f.SecondBase = Nil /\ f.ThirdBase = Nil

\* The step plays the result res of the batter at the plate.
Plays(res) == sim.pc = "switch" /\ sim.result = res

\* C4: in every state of a game Runs >= 0 and Hits >= 0; no step lowers
\* Runs or Hits; the left-on-base value Field.LOB() recorded at the end of
\* each inning is between 0 and 3, and the game's LOB grows by it.
C4_CountersSound ==
    /\ [](/\ sim.game.Runs >= 0
          /\ sim.game.Hits >= 0
          /\ sim.pc = "lob" => FieldLOB(sim.game.Field) \in 0..3)
    /\ [][/\ sim'.game.Runs >= sim.game.Runs
          /\ sim'.game.Hits >= sim.game.Hits
          /\ sim.pc = "lob" =>
                /\ sim'.game.LOB - sim.game.LOB = FieldLOB(sim.game.Field)
                /\ sim'.game.LOB - sim.game.LOB \in 0..3]_vars

\* A finished game in which runs scored, hits were made and runners were
\* left on base.
C4_Witness ==
    /\ sim.pc = "done"
    /\ sim.game.Runs > 0
    /\ sim.game.Hits > 0
    /\ sim.game.LOB > 0

\* C5: a walk or hit-by-pitch advances forced runners only.  The batter
\* takes first; the runner on first takes second only if first was
\* occupied; the runner on second takes third only if first and second were
\* occupied; one run scores only if all three were; a runner who is not
\* forced stays; Hits is unchanged.
C5_WalkForcesOnly ==
    [][Plays(HIT_BY_PITCH_WALK) =>
         LET f      == sim.game.Field
             first  == Occupied(f.FirstBase)
             second == first /\ Occupied(f.SecondBase)
         IN  /\ sim'.game.Field.FirstBase = sim.batterIndex
             /\ sim'.game.Field.SecondBase =
                    IF first THEN f.FirstBase ELSE f.SecondBase
             /\ sim'.game.Field.ThirdBase =
                    IF second THEN f.SecondBase ELSE f.ThirdBase
             /\ sim'.game.Runs = sim.game.Runs + (IF Loaded(f) THEN 1 ELSE 0)
             /\ sim'.game.Hits = sim.game.Hits]_vars

\* The fourth batter has walked with the bases loaded: the first batter
\* scored, the others moved up one base, no hit was made.
C5_Witness ==
    /\ sim.pc = "bat"
    /\ sim.result = HIT_BY_PITCH_WALK
    /\ sim.pa = 4
    /\ sim.game.Runs = 1
    /\ sim.game.Hits = 0
    /\ sim.game.Field.ThirdBase = 1
    /\ sim.game.Field.SecondBase = 2
    /\ sim.game.Field.FirstBase = 3

\* C6: a home run scores every runner on base and the batter, counts one
\* hit and leaves first, second, third and the plate empty; with the bases
\* loaded that is four runs.
C6_HomeRunClearsBases ==
    [][Plays(HIT_HOMERUN) =>
         /\ sim'.game.Runs = sim.game.Runs + FieldLOB(sim.game.Field) + 1
         /\ Loaded(sim.game.Field) => sim'.game.Runs = sim.game.Runs + 4
         /\ sim'.game.Hits = sim.game.Hits + 1
         /\ BasesEmpty(sim'.game.Field)
         /\ sim'.game.Field.AtBat = Nil]_vars

\* Three walks loaded the bases and the fourth batter hit a home run.
C6_Witness ==
    /\ sim.pc = "bat"
    /\ sim.result = HIT_HOMERUN
    /\ sim.pa = 4
    /\ sim.game.Runs = 4
    /\ sim.game.Hits = 1
    /\ BasesEmpty(sim.game.Field)

\* ---------------------------------------------------------------------
\* Two runs of one game of the same lineup on the same seeded stream r.
\* Every call of r.Float64() returns the same value in both runs: u and v
\* in PlateAppearance and hitType, d for the double play.  The draws inside
\* Game.Hit come from the package-level source of math/rand, which the
\* package seeds from the clock and every worker shares; they are not
\* part of r, so each run draws its own.

TwinInit ==
    /\ n = 9
    /\ k = 9
    /\ mainpc = "wait"
    /\ EnumIdle
    /\ PipeIdle
    /\ lineup = NineBatters
    /\ sim = NewSim
    /\ sim2 = NewSim
    /\ AggIdle
    /\ CallIdle

\* The batter of each run steps up; r returns u and then v in both.
TwinBat ==
    /\ sim.pc = "bat"
    /\ sim2.pc = "bat"
    /\ \E u \in Draws : \E v \in HitTypeDraws(sim, lineup, u) :
          LET s == BatStep(sim, lineup, u, v)
              t == BatStep(sim2, lineup, u, v)
          IN  /\ s.result # HIT_OUT => CanReach(sim)
              /\ t.result # HIT_OUT => CanReach(sim2)
              /\ sim' = s
              /\ sim2' = t
    /\ UNCHANGED <<notGame, lineup>>

\* Each run plays its result; r returns d in both, rand.Float64() returns
\* coin1 in the first run and coin2 in the second.
TwinSwitch ==
    /\ sim.pc = "switch"
    /\ sim2.pc = "switch"
    /\ \E d \in DoublePlayDraws(sim), coin1 \in HitCoins(sim), coin2 \in HitCoins(sim2) :
          /\ sim' = SwitchStep(sim, lineup, d, coin1)
          /\ sim2' = SwitchStep(sim2, lineup, d, coin2)
    /\ UNCHANGED <<notGame, lineup>>

\* The third out of each run.
TwinLob ==
    /\ sim.pc = "lob"
    /\ sim2.pc = "lob"
    /\ sim' = LobStep(sim)
    /\ sim2' = LobStep(sim2)
    /\ UNCHANGED <<notGame, lineup>>

TwinNext ==
    \/ TwinBat
    \/ TwinSwitch
    \/ TwinLob

TwinSpec == TwinInit /\ [][TwinNext]_vars

\* The two runs consume r alike: they are at the same place of the loop
\* with the same result, outs, inning and batter, and first base is
\* occupied in both or in neither, so the double-play draw is taken in
\* both or in neither.
TwinInStep ==
    /\ sim.pc = sim2.pc
    /\ sim.result = sim2.result
    /\ sim.outs = sim2.outs
    /\ sim.inning = sim2.inning
    /\ sim.batterIndex = sim2.batterIndex
    /\ Occupied(sim.game.Field.FirstBase) = Occupied(sim2.game.Field.FirstBase)

\* C7: two runs of one game of the same lineup on an identical seeded
\* stream r end with identical Runs, Hits and LOB totals.
C7_SameTotals ==
    (sim.pc = "done" /\ sim2.pc = "done") =>
        /\ sim.game.Runs = sim2.game.Runs
        /\ sim.game.Hits = sim2.game.Hits
        /\ sim.game.LOB = sim2.game.LOB

\* What the two runs do share: the hits, which r alone decides.
C7_SameHits == sim.game.Hits = sim2.game.Hits

\* ---------------------------------------------------------------------
\* The sample entry point (main that loads player_files/sample.json).
\* It starts 1000 goroutines, each of which plays one game with the loaded
\* players as they stand, players[batterIndex]; the goroutines share
\* nothing but the players, which they only read, so one of them is
\* modelled.  The roster is loaded with any length from 0 to 9.

SampleInit ==
    /\ n \in 0..BattingOrder
    /\ k = BattingOrder
    /\ mainpc = "load"
    /\ EnumIdle
    /\ PipeIdle
    /\ lineup = SubSeq(NineBatters, 1, n)
    /\ sim = NewSim
    /\ sim2 = NewSim
    /\ AggIdle
    /\ CallIdle

\* wg.Add(1); go func(gameID int) {...}(gamecount): game := baseball.Game{},
\* batterIndex := 0, the loops begin.
SampleGo ==
    /\ mainpc = "load"
    /\ mainpc' = "run"
    /\ UNCHANGED <<rosterVars, enumVars, pipeVars, simVars, aggVars, callVars>>

\* game.Field.AtBat = &players[batterIndex] and the plate appearance; the
\* index is out of range when the roster is shorter than the batting order
\* has come to, and the goroutine panics.
SampleBat == mainpc = "run" /\ GameBat

SampleSwitch == mainpc = "run" /\ GameSwitch

SampleLob == mainpc = "run" /\ GameLob

\* The goroutine is done, wg.Wait() returns, main returns.
SampleReturn ==
    /\ mainpc = "run"
    /\ sim.pc = "done"
    /\ mainpc' = "exit"
    /\ UNCHANGED <<rosterVars, enumVars, pipeVars, simVars, aggVars, callVars>>

\* The panic of the goroutine ends the process.
SampleCrash ==
    /\ mainpc = "run"
    /\ sim.pc = "panic"
    /\ mainpc' = "crash"
    /\ UNCHANGED <<rosterVars, enumVars, pipeVars, simVars, aggVars, callVars>>

SampleNext ==
    \/ SampleGo
    \/ SampleBat
    \/ SampleSwitch
    \/ SampleLob
    \/ SampleReturn
    \/ SampleCrash

SampleSpec == SampleInit /\ [][SampleNext]_vars

\* Work of the program: a callback of the enumerator invoked, a worker
\* started, a lineup queued, a plate appearance of a game played.
WorkBegun ==
    \/ combLog # <<>>
    \/ permLog # <<>>
    \/ en.ph \in {"cyield", "pyield"}
    \/ \E w \in 1..NumWorkers : wpc[w] # "none"
    \/ ch # <<>>
    \/ sim.pa > 0

\* C9: with a roster of fewer players than a lineup needs, no enumeration
\* begins: no combination or permutation callback is invoked, no worker is
\* started, no lineup is queued, no game is simulated.
C9_NoWorkOnShortRoster == n < k => ~WorkBegun

\* What the sample entry point does with a short roster: it plays the game
\* until the batting order comes to the end of the roster.
C9_PlaysUntilRosterEnds ==
    (n < k /\ sim.pc = "panic") => (sim.batterIndex = n /\ sim.pa = n)

\* ---------------------------------------------------------------------
\* The aggregator.  The workers complete lineups in any order; each hands
\* its LineupResult (the lineup's identity and meanRuns) first to the top-K
\* structure and then to the bottom-K structure, each update under the
\* structure's mutex.  A structure is the set of the results it holds.

\* The entries of q with the lowest (highest) meanRuns: the candidates for
\* the root of the min- (max-) priority queue.
Lowest(q) == {e \in q : \A f \in q : e.mean <= f.mean}

Highest(q) == {e \in q : \A f \in q : e.mean >= f.mean}

\* A mutant of TopInsert: a full structure always gives up its minimum.
TopInsertAlways(q, r) ==
    IF Cardinality(q) < TopK
    THEN {q \cup {r}}
    ELSE {(q \ {e}) \cup {r} : e \in Lowest(q)}

\* The top-K update: insert while below capacity, else pop and replace the
\* current minimum if the new value exceeds it.  The structures it may leave.
TopInsert(q, r) ==
    IF Cardinality(q) < TopK
    THEN {q \cup {r}}
    ELSE IF \E e \in Lowest(q) : r.mean > e.mean
         THEN {(q \ {e}) \cup {r} : e \in Lowest(q)}
         ELSE {q}

\* A mutant of BottomInsert: a full structure takes no further result.
BottomInsertNever(q, r) ==
    IF Cardinality(q) < BottomK
    THEN {q \cup {r}}
    ELSE {q}

\* The bottom-K update, symmetric: pop and replace the current maximum if
\* the new value is below it.
BottomInsert(q, r) ==
    IF Cardinality(q) < BottomK
    THEN {q \cup {r}}
    ELSE IF \E e \in Highest(q) : r.mean < e.mean
         THEN {(q \ {e}) \cup {r} : e \in Highest(q)}
         ELSE {q}

AggInit ==
    /\ n = 9
    /\ k = 9
    /\ mainpc = "wait"
    /\ EnumIdle
    /\ ch = <<>>
    /\ closed = FALSE
    /\ wpc = [w \in 1..NumWorkers |-> "recv"]
    /\ wjob = [w \in 1..NumWorkers |-> <<>>]
    /\ wg = NumWorkers
    /\ count = 0
    /\ simcount = << >>
    /\ SimIdle
    /\ AggIdle
    /\ CallIdle

\* A worker has played the G games of its next lineup and computed the
\* LineupResult: the lineup's identity and its meanRuns.
AggComplete(w) ==
    /\ wpc[w] = "recv"
    /\ count < MaxLineups
    /\ \E m \in 0..MaxMean :
          /\ wjob' = [wjob EXCEPT ![w] = [id |-> count + 1, mean |-> m]]
          /\ scores' = Append(scores, m)
    /\ count' = count + 1
    /\ wpc' = [wpc EXCEPT ![w] = "top"]
    /\ UNCHANGED <<rosterVars, mainpc, enumVars, ch, closed, wg, simcount,
                   simVars, top, bottom, callVars>>

\* The worker holds the mutex of the top-K structure and updates it.
AggTop(w) ==
    /\ wpc[w] = "top"
    /\ top' \in TopInsert(top, wjob[w])
    /\ wpc' = [wpc EXCEPT ![w] = "bottom"]
    /\ UNCHANGED <<rosterVars, mainpc, enumVars, ch, closed, wjob, wg, count,
                   simcount, simVars, scores, bottom, callVars>>

\* The worker holds the mutex of the bottom-K structure and updates it.
AggBottom(w) ==
    /\ wpc[w] = "bottom"
    /\ bottom' \in BottomInsert(bottom, wjob[w])
    /\ wjob' = [wjob EXCEPT ![w] = <<>>]
    /\ wpc' = [wpc EXCEPT ![w] = "recv"]
    /\ UNCHANGED <<rosterVars, mainpc, enumVars, ch, closed, wg, count,
                   simcount, simVars, scores, top, callVars>>

AggNext ==
    \/ \E w \in 1..NumWorkers : AggComplete(w)
    \/ \E w \in 1..NumWorkers : AggTop(w)
    \/ \E w \in 1..NumWorkers : AggBottom(w)

AggSpec == AggInit /\ [][AggNext]_vars

\* The lineups whose result the top-K (bottom-K) structure has processed.
InTop == {i \in 1..count : \A w \in 1..NumWorkers :
             wpc[w] = "top" => wjob[w].id # i}

InBottom == {i \in 1..count : \A w \in 1..NumWorkers :
                wpc[w] \in {"top", "bottom"} => wjob[w].id # i}

Smaller(a, b) == IF a < b THEN a ELSE b

\* The results of the lineups in ids.
Results(ids) == {[id |-> i, mean |-> scores[i]] : i \in ids}

\* C8: after M lineups have been processed, the top-K structure holds
\* exactly min(K, M) of their results, one per lineup, each with meanRuns
\* at least that of every processed lineup it does not hold; the bottom
\* structure holds exactly min(10, M), each with meanRuns at most that of
\* every processed lineup it does not hold; in whatever order the workers
\* complete the lineups.
C8_RankingsHoldTheExtremes ==
    /\ top \subseteq Results(InTop)
    /\ Cardinality(top) = Smaller(TopK, Cardinality(InTop))
    /\ \A e \in top : \A r \in Results(InTop) \ top : e.mean >= r.mean
    /\ bottom \subseteq Results(InBottom)
    /\ Cardinality(bottom) = Smaller(BottomK, Cardinality(InBottom))
    /\ \A e \in bottom : \A r \in Results(InBottom) \ bottom : e.mean <= r.mean

\* Every lineup has been processed and both structures are full; the top
\* structure has given up the first lineup completed and taken the last
\* one; the bottom structure holds the first.
C8_Witness ==
    /\ count = MaxLineups
    /\ \A w \in 1..NumWorkers : wpc[w] = "recv"
    /\ Cardinality(top) = TopK
    /\ Cardinality(bottom) = BottomK
    /\ \E e \in top : e.id = MaxLineups
    /\ \A e \in top : e.id # 1
    /\ \E e \in bottom : e.id = 1

\* ---------------------------------------------------------------------
\* One game through any number of plate appearances.  The loops of the
\* game read inning, outs, batterIndex and the bases, never the tallies
\* (Runs, Hits, LOB, the appearances played); here the tallies are left
\* out, so that the game in which batters reach base for ever is a
\* behaviour of finitely many states.

Untallied(s) == [s EXCEPT !.game.Runs = 0, !.game.Hits = 0, !.game.LOB = 0,
                          !.pa = 0, !.reached = 0]

LoopInit == GameInit

\* The plate appearance ends in an out (hitType is not called).
LoopBatOut ==
    /\ sim.pc = "bat"
    /\ \E u \in Draws :
          /\ PlateAppearance(lineup[sim.batterIndex + 1], "right", u, 0) = HIT_OUT
          /\ sim' = BatStep(sim, lineup, u, 0)
    /\ UNCHANGED <<notGame, lineup, sim2>>

\* The plate appearance ends in a walk or a hit.
LoopBatReach ==
    /\ sim.pc = "bat"
    /\ \E u \in Draws : \E v \in HitTypeDraws(sim, lineup, u) :
          /\ PlateAppearance(lineup[sim.batterIndex + 1], "right", u, v) # HIT_OUT
          /\ sim' = BatStep(sim, lineup, u, v)
    /\ UNCHANGED <<notGame, lineup, sim2>>

LoopSwitch ==
    /\ sim.pc = "switch"
    /\ \E d \in DoublePlayDraws(sim), coin \in HitCoins(sim) :
          sim' = Untallied(SwitchStep(sim, lineup, d, coin))
    /\ UNCHANGED <<notGame, lineup, sim2>>

LoopLob ==
    /\ sim.pc = "lob"
    /\ sim' = Untallied(LobStep(sim))
    /\ UNCHANGED <<notGame, lineup, sim2>>

LoopNext ==
    \/ LoopBatOut
    \/ LoopBatReach
    \/ LoopSwitch
    \/ LoopLob

LoopSpec == LoopInit /\ [][LoopNext]_vars

\* The worker's goroutine keeps running (weak fairness of the steps of the
\* loop); of the results r draws, the out keeps occurring (strong fairness:
\* the draw is possible again at every plate appearance, not at every step).
FairLoopSpec ==
    /\ LoopSpec
    /\ WF_vars(LoopNext)
    /\ SF_vars(LoopBatOut)

\* C10: provided outs keep occurring, every game comes to its end; at its
\* end nine innings have been played, each of which ended with outs = 3
\* (the inning counter moves only at a third out, by one, and stands at 10
\* at the end), and nothing happens after the ninth inning's third out.
C10_GameEnds ==
    /\ <>(sim.pc = "done")
    /\ [](sim.pc = "lob" => (sim.outs = OutsPerInning /\ sim.inning \in 1..Innings))
    /\ [](sim.pc = "bat" => (sim.outs < OutsPerInning /\ sim.inning \in 1..Innings))
    /\ [](sim.pc = "done" => (sim.outs = OutsPerInning /\ sim.inning = Innings + 1))
    /\ [][sim'.inning # sim.inning =>
             (sim.pc = "lob" /\ sim'.inning = sim.inning + 1)]_vars
    /\ [][sim.pc = "done" => sim' = sim]_vars

\* A game at its end, after nine innings in which not every batter was
\* out (27 outs alone bring the batting order back to its first batter).
C10_Witness ==
    /\ sim.pc = "done"
    /\ sim.inning = Innings + 1
    /\ sim.outs = OutsPerInning
    /\ sim.batterIndex = 4
    /\ sim.result = HIT_OUT

\* ---------------------------------------------------------------------
\* Player.PlateAppearance and hitType called on their own.

\* 0, 1/GridSteps, ..., 1 in thousandths.
Grid == {(1000 * i) \div GridSteps : i \in 0..GridSteps}

\* The Stats with 0 <= AVG <= OBP <= 1; SLUG is AVG (every hit a single) or
\* 1.000.
GridStats == {[AVG |-> a, OBP |-> o, SLUG |-> g] :
                 <<a, o, g>> \in {t \in Grid \X Grid \X Grid :
                                    t[1] <= t[2] /\ t[3] \in {t[1], 1000}}}

GridPlayers == [LHP : GridStats, RHP : GridStats]

Hands == {"left", "right", ""}

HitTypes == {HIT_SINGLE, HIT_DOUBLE, HIT_TRIPLE, HIT_HOMERUN}

\* The caller has a player, a pitcher hand and a stream r whose next value
\* is u.
PaInit ==
    /\ n = 9
    /\ k = 9
    /\ mainpc = "call"
    /\ EnumIdle
    /\ PipeIdle
    /\ SimIdle
    /\ AggIdle
    /\ arg \in [p : GridPlayers, hand : Hands, u : Grid, v : {0}]
    /\ out = ""

\* result := p.PlateAppearance(hand, r); v is the value hitType draws.
PaCall ==
    /\ mainpc = "call"
    /\ \E v \in Draws :
          /\ arg' = [arg EXCEPT !.v = v]
          /\ out' = PlateAppearance(arg.p, arg.hand, arg.u, v)
    /\ mainpc' = "return"
    /\ UNCHANGED <<rosterVars, enumVars, pipeVars, simVars, aggVars>>

PaNext == PaCall

PaSpec == PaInit /\ [][PaNext]_vars

\* The draws of the grid for which the call in arg returns a result in res.
Band(res) == {u \in Grid : PlateAppearance(arg.p, arg.hand, u, arg.v) \in res}

\* C11: PlateAppearance reads the LHP split for "left" and the RHP split
\* for any other hand; the result is an out iff u > OBP, a walk iff
\* AVG < u <= OBP, a hit type iff u <= AVG; the three bands are disjoint
\* and cover the draws, so their shares are non-negative and sum to the
\* whole.
C11_ThreeBands ==
    mainpc = "return" =>
        LET s == IF arg.hand = "left" THEN arg.p.LHP ELSE arg.p.RHP
            O == Band({HIT_OUT})
            W == Band({HIT_BY_PITCH_WALK})
            H == Band(HitTypes)
        IN  /\ out = HIT_OUT <=> arg.u > s.OBP
            /\ out = HIT_BY_PITCH_WALK <=> (s.AVG < arg.u /\ arg.u <= s.OBP)
            /\ out \in HitTypes <=> arg.u <= s.AVG
            /\ O \cup W \cup H = Grid
            /\ O \cap W = {} /\ O \cap H = {} /\ W \cap H = {}
            /\ Cardinality(O) + Cardinality(W) + Cardinality(H) = Cardinality(Grid)
            /\ O = {u \in Grid : u > s.OBP}
            /\ W = {u \in Grid : s.AVG < u /\ u <= s.OBP}
            /\ H = {u \in Grid : u <= s.AVG}

\* A walk against a left-hander, on a draw equal to the OBP of the LHP
\* split, of a player whom the RHP split would have put out.
C11_Witness ==
    /\ mainpc = "return"
    /\ arg.hand = "left"
    /\ out = HIT_BY_PITCH_WALK
    /\ arg.u = arg.p.LHP.OBP
    /\ arg.u > arg.p.RHP.OBP

\* ---------------------------------------------------------------------
\* hitType called on its own, with AVG > 0 and SLUG > 0.

Averages == {(1000 * i) \div StatSteps : i \in 1..StatSteps}

Sluggings == {(1000 * i) \div StatSteps : i \in 1..(2 * StatSteps)}

HitTypeInit ==
    /\ n = 9
    /\ k = 9
    /\ mainpc = "call"
    /\ EnumIdle
    /\ PipeIdle
    /\ SimIdle
    /\ AggIdle
    /\ arg \in [avg : Averages, slug : Sluggings, v : {0}]
    /\ out = ""

\* hitType(avg, slug, r) where r.Float64() returns v.
HitTypeCall ==
    /\ mainpc = "call"
    /\ \E v \in Draws :
          /\ arg' = [arg EXCEPT !.v = v]
          /\ out' = hitType(arg.avg, arg.slug, v)
    /\ mainpc' = "return"
    /\ UNCHANGED <<rosterVars, enumVars, pipeVars, simVars, aggVars>>

HitTypeNext == HitTypeCall

HitTypeSpec == HitTypeInit /\ [][HitTypeNext]_vars

\* The probabilities hitType draws from in the call in arg.
Probs == HitProbs(arg.avg, arg.slug)

\* C12: for AVG > 0 and SLUG > 0 the four probabilities hitType has
\* computed after clamping and redistribution sum to 1 and each lies
\* between 0 and 1; the type returned is the one whose band holds the draw.
C12_HitTypesSumToOne ==
    LET p == Probs
        x == 3 * arg.avg * arg.v
    IN  /\ p.pS + p.p2 + p.p3 + p.pHR = p.den
        /\ \A q \in {p.pS, p.p2, p.p3, p.pHR} : 0 <= q /\ q <= p.den
        /\ mainpc = "return" =>
              /\ out = HIT_SINGLE <=> x < p.pS
              /\ out = HIT_DOUBLE <=> (p.pS <= x /\ x < p.pS + p.p2)
              /\ out = HIT_TRIPLE <=> (p.pS + p.p2 <= x /\ x < p.pS + p.p2 + p.p3)
              /\ out = HIT_HOMERUN <=> p.pS + p.p2 + p.p3 <= x

\* A home run of a hitter with 1.3 bases a hit, whose pHR is above its
\* lower bound 0.03 and below its upper bound 0.12.
C12_Witness ==
    /\ mainpc = "return"
    /\ out = HIT_HOMERUN
    /\ 10 * arg.slug = 13 * arg.avg
    /\ Probs.pHR * 100 > 3 * Probs.den
    /\ Probs.pHR * 100 < 12 * Probs.den

\* C21: for AVG > 0 and SLUG > 0, p2 <= 0.26, p3 <= 0.02 and pHR <= 0.12,
\* so the pS computed before the test pS < 0.55 is at least 0.60; the
\* branch that takes the deficit from pHR and then p2 is never entered, and
\* the probabilities drawn from are the clamped ones.
C21_FloorNeverEntered ==
    LET avg == arg.avg
        t   == BasesPerHit(avg, arg.slug)
        p3  == TripleShare(avg, t)
        p2  == DoubleShare(avg, t)
        pHR == HomeRunShare(avg, t, p2, p3)
        p   == Probs
    IN  /\ p2 <= 780 * avg
        /\ p3 <= 60 * avg
        /\ pHR <= 360 * avg
        /\ p.pSfirst = SingleShare(avg, p2, p3, pHR)
        /\ p.pSfirst >= 1800 * avg
        /\ ~p.floor
        /\ p.pS = p.pSfirst /\ p.p2 = p2 /\ p.p3 = p3 /\ p.pHR = pHR
        /\ mainpc = "return" =>
              LET x  == 3 * avg * arg.v
                  pS == SingleShare(avg, p2, p3, pHR)
              IN  out = IF x < pS THEN HIT_SINGLE
                        ELSE IF x < pS + p2 THEN HIT_DOUBLE
                        ELSE IF x < pS + p2 + p3 THEN HIT_TRIPLE
                        ELSE HIT_HOMERUN

\* A call for a hitter with 3 or more bases a hit: t, p2, p3 and pHR are all at
\* their upper bounds, pS before the test is exactly 0.60, and the draw
\* 0.870 falls beyond the singles and the doubles.
C21_Witness ==
    /\ mainpc = "return"
    /\ arg.slug >= 3 * arg.avg
    /\ Probs.pSfirst = 1800 * arg.avg
    /\ Probs.p2 = 780 * arg.avg
    /\ Probs.pHR = 360 * arg.avg
    /\ arg.v = 870
    /\ out = HIT_TRIPLE

\* ---------------------------------------------------------------------
\* The steps of one game (GameSpec), one result at a time.

\* C13: an out adds one to outs; a double play fires only with a runner on
\* first and fewer than two outs after that, and then adds exactly one
\* more and clears first base; Runs, Hits, second and third are unchanged
\* either way, and outs stays within 0..3.
C13_OutAndDoublePlay ==
    /\ [](sim.outs \in 0..OutsPerInning)
    /\ [][Plays(HIT_OUT) =>
             LET f  == sim.game.Field
                 dp == sim'.outs = sim.outs + 2
             IN  /\ sim'.outs \in {sim.outs + 1, sim.outs + 2}
                 /\ dp => /\ Occupied(f.FirstBase)
                          /\ sim.outs + 1 < 2
                          /\ sim'.game.Field.FirstBase = Nil
                 /\ ~dp => sim'.game.Field.FirstBase = f.FirstBase
                 /\ sim'.game.Runs = sim.game.Runs
                 /\ sim'.game.Hits = sim.game.Hits
                 /\ sim'.game.Field.SecondBase = f.SecondBase
                 /\ sim'.game.Field.ThirdBase = f.ThirdBase]_vars

\* The leadoff batter tripled, the second walked, the third hit into a
\* double play: two outs, first base cleared, the runner still on third.
C13_Witness ==
    /\ sim.pc = "bat"
    /\ sim.result = HIT_OUT
    /\ sim.pa = 3
    /\ sim.outs = 2
    /\ sim.game.Field.FirstBase = Nil
    /\ sim.game.Field.ThirdBase = 0
    /\ sim.game.Runs = 0

\* C14: a single adds one to Hits; the runner on third scores; the runner
\* on second scores or ends on third; the runner on first ends on second;
\* the batter ends on first and the plate is cleared; Runs grows by the
\* number of runners who scored.
C14_Single ==
    [][Plays(HIT_SINGLE) =>
         LET f == sim.game.Field
             g == sim'.game.Field
             secondScored == Occupied(f.SecondBase) /\ g.ThirdBase = Nil
         IN  /\ sim'.game.Hits = sim.game.Hits + 1
             /\ g.FirstBase = sim.batterIndex
             /\ g.SecondBase = f.FirstBase
             /\ g.ThirdBase \in {Nil, f.SecondBase}
             /\ g.AtBat = Nil
             /\ sim'.game.Runs = sim.game.Runs
                    + (IF Occupied(f.ThirdBase) THEN 1 ELSE 0)
                    + (IF secondScored THEN 1 ELSE 0)]_vars

\* Three walks loaded the bases; on the single the runner on third scored,
\* the runner on second stopped at third.
C14_Witness ==
    /\ sim.pc = "bat"
    /\ sim.result = HIT_SINGLE
    /\ sim.pa = 4
    /\ sim.game.Runs = 1
    /\ sim.game.Hits = 1
    /\ sim.game.Field.ThirdBase = 1
    /\ sim.game.Field.SecondBase = 2
    /\ sim.game.Field.FirstBase = 3

\* C15: a double adds one to Hits; the runners on third and second score;
\* the runner on first scores or ends on third; the batter ends on second,
\* first base is empty and the plate is cleared; Runs grows by the number
\* of runners who scored.
C15_Double ==
    [][Plays(HIT_DOUBLE) =>
         LET f == sim.game.Field
             g == sim'.game.Field
             firstScored == Occupied(f.FirstBase) /\ g.ThirdBase = Nil
         IN  /\ sim'.game.Hits = sim.game.Hits + 1
             /\ g.FirstBase = Nil
             /\ g.SecondBase = sim.batterIndex
             /\ g.ThirdBase \in {Nil, f.FirstBase}
             /\ g.AtBat = Nil
             /\ sim'.game.Runs = sim.game.Runs
                    + (IF Occupied(f.ThirdBase) THEN 1 ELSE 0)
                    + (IF Occupied(f.SecondBase) THEN 1 ELSE 0)
                    + (IF firstScored THEN 1 ELSE 0)]_vars

\* Three walks loaded the bases; on the double two runners scored and the
\* runner on first stopped at third.
C15_Witness ==
    /\ sim.pc = "bat"
    /\ sim.result = HIT_DOUBLE
    /\ sim.pa = 4
    /\ sim.game.Runs = 2
    /\ sim.game.Hits = 1
    /\ sim.game.Field.ThirdBase = 2
    /\ sim.game.Field.SecondBase = 3
    /\ sim.game.Field.FirstBase = Nil

\* C16: the batting-order index starts at 0, moves by one modulo 9 with
\* every plate appearance whatever its result, and is left alone at the
\* end of an inning: the batter of plate appearance number pa (from 0) is
\* lineup position pa mod 9.
C16_BattingOrder ==
    /\ [](sim.batterIndex = sim.pa % BattingOrder)
    /\ [](sim.pc = "switch" => sim.game.Field.AtBat = sim.pa % BattingOrder)
    /\ [][sim.pc = "switch" =>
             /\ sim'.pa = sim.pa + 1
             /\ sim'.batterIndex = (sim.batterIndex + 1) % BattingOrder]_vars
    /\ [][sim.pc # "switch" => sim'.batterIndex = sim.batterIndex]_vars

\* The fourth inning begins with the second batter, the second time
\* through the order: nine outs in ten plate appearances, one of them a
\* double play.
C16_Witness ==
    /\ sim.pc = "bat"
    /\ sim.inning = 4
    /\ sim.outs = 0
    /\ sim.pa = 10
    /\ sim.batterIndex = 1
    /\ sim.reached = 2

\* C17: at the end of an inning the occupied bases are added to LOB and the
\* three bases cleared, so every inning, the first included, starts with
\* no outs and empty bases; the plate is occupied during a plate
\* appearance and empty after it.
C17_InningBoundary ==
    /\ (sim.outs = 0 /\ BasesEmpty(sim.game.Field) /\ sim.game.Field.AtBat = Nil)
    /\ [][sim.pc = "lob" =>
             /\ sim'.game.LOB = sim.game.LOB + FieldLOB(sim.game.Field)
             /\ BasesEmpty(sim'.game.Field)
             /\ sim'.inning = sim.inning + 1
             /\ sim'.pc = "bat" => sim'.outs = 0]_vars
    /\ [](sim.pc = "switch" => sim.game.Field.AtBat = sim.batterIndex)
    /\ [](sim.pc # "switch" => sim.game.Field.AtBat = Nil)
    /\ []((sim.pc = "bat" /\ sim.outs = 0 /\ sim.result \in {"", HIT_OUT}) =>
             BasesEmpty(sim.game.Field))

\* The second inning begins: two runners were left on base in the first.
C17_Witness ==
    /\ sim.pc = "bat"
    /\ sim.inning = 2
    /\ sim.outs = 0
    /\ sim.pa = 5
    /\ sim.game.LOB = 2
    /\ BasesEmpty(sim.game.Field)

\* The outs recorded in the game so far: three for every inning played,
\* and those of the inning being played.
TotalOuts ==
    OutsPerInning * (sim.inning - 1) + (IF sim.pc = "done" THEN 0 ELSE sim.outs)

\* C19: no runner is overwritten or duplicated: the plate appearances
\* completed equal Runs + LOB + the outs recorded + the runners on base; at
\* the end of a game they equal Runs + LOB + 27.
C19_RunnersConserved ==
    /\ sim.pa = sim.game.Runs + sim.game.LOB + TotalOuts + FieldLOB(sim.game.Field)
    /\ sim.pc = "done" => sim.pa = sim.game.Runs + sim.game.LOB + 27

\* A game at its end with runs scored, runners left on base and a double
\* play: 30 plate appearances for 27 outs.
C19_Witness ==
    /\ sim.pc = "done"
    /\ sim.pa = 30
    /\ sim.game.Runs = 2
    /\ sim.game.LOB = 1
    /\ sim.reached = 4

\* The lineup positions in the four slots of the field.
Slots == {"AtBat", "FirstBase", "SecondBase", "ThirdBase"}

MainStep == MainCheck \/ MainStart \/ MainWait

ProducerStep == ProducerRun \/ ProducerSend \/ ProducerClose

WorkerStep(w) == WorkerRecv(w) \/ WorkerProcess(w) \/ WorkerExit(w)

FairSpec ==
    /\ Spec
    /\ WF_vars(MainStep)
    /\ WF_vars(ProducerStep)
    /\ \A w \in 1..NumWorkers : WF_vars(WorkerStep(w))

\* C18: with a roster of at least a lineup's size the pipeline runs the
\* enumeration to its end and shuts down: the producer pushes every lineup
\* and closes the channel, every worker drains it and exits, main's wait
\* returns, and the progress counter then equals the number of lineups
\* enumerated.
C18_PipelineShutsDown ==
    /\ (n >= k) ~> (mainpc = "exit")
    /\ [](mainpc = "exit" =>
             /\ en.ph = "done"
             /\ Len(permLog) = Choose(n, k) * Fact(k)
             /\ closed
             /\ ch = <<>>
             /\ \A w \in 1..NumWorkers : wpc[w] = "exit"
             /\ wg = 0
             /\ count = Len(permLog))
    /\ [](count <= Len(permLog))

\* The run of the largest roster has shut down after the producer had met
\* a full channel: every lineup counted.
C18_Witness ==
    /\ mainpc = "exit"
    /\ n = PipeN
    /\ k = PipeK
    /\ count = Choose(PipeN, PipeK) * Fact(PipeK)
    /\ count > QueueCap + NumWorkers

====
